---- MODULE Spec2Model ----
(***************************************************************************)
(* Webbybot: the Robot's listener dispatch pipeline, its error channel and *)
(* its outbound helpers.                                                    *)
(*                                                                         *)
(* Robot is modelled from its source (robot.js).  The collaborators it     *)
(* requires but that are not part of the source tree (./middleware,        *)
(* ./listener, ./message, ./response) are modelled from the design         *)
(* document; async.detectSeries, process.nextTick and EventEmitter are     *)
(* modelled by their library semantics.                                    *)
(*                                                                         *)
(* One action is one synchronous turn of the event loop: everything a      *)
(* callback does before it returns to the loop, nested calls included.     *)
(***************************************************************************)
EXTENDS Integers, Sequences, FiniteSets, TLC

VARIABLES
  listeners,      \* this.listeners: the registry, in registration order
  middleware,     \* this.middleware: the listener, response and receive stacks
  errorHandlers,  \* this.errorHandlers
  registered,     \* history: the functions given to each middleware stage, in call order
  messages,       \* heap of Message objects: variant, done flag, wrapped message
  dispatches,     \* one record per receive(message, cb) call made by the adapter
  reports,        \* history: one record per 'error' event emitted
  exited,         \* the process has died of an exception nothing caught
  sends,          \* outbound strings a Response is taking through the response chain
  outbox,         \* history: what was handed to adapter.send / adapter.reply
  name,           \* this.name, a string: the sequence of its characters
  alias,          \* this.alias: a string, empty when the robot has no alias
  patterns        \* history: the calls of respondPattern and what was done
                  \* with the RegExp each returned

vars == <<listeners, middleware, errorHandlers, registered, messages,
          dispatches, reports, exited, sends, outbox, name, alias, patterns>>

dispatchVars == <<messages, dispatches, reports, exited>>
outboundVars == <<sends, outbox>>
patternVars == <<name, alias, patterns>>

----------------------------------------------------------------------------
(* Bounds of the model *)

MaxListeners == 3
MaxMiddleware == 2
MaxErrorHandlers == 2
MaxDispatches == 2
MaxSends == 2
MaxChainListeners == 2
MaxReceiveMiddleware == 1
MaxHelperListeners == 2
MaxPatterns == 1
MaxLateListeners == 3

----------------------------------------------------------------------------
(* Input alphabets *)

\* What a listener callback does with its Response.
CallbackKinds == {"ok", "finish", "throws"}
\* What a middleware function does with (context, next, done).
MiddlewareKinds == {"next", "done", "throws"}
\* What an error handler does with (err, res).
HandlerKinds == {"ok", "throws"}
\* The variants the adapter hands to receive.
InboundVariants == {"Text", "Enter"}
\* The variants of ./message an adapter can construct.
MessageVariants == {"Text", "Enter", "Leave", "Topic"}

Min(S) == CHOOSE x \in S : \A y \in S : x <= y

\* Strings of the model.
Webby == <<"W", "e", "b", "b", "y">>
Bot == <<"B", "o", "t">>
Web == <<"W", "e", "b">>
Foo == <<"f", "o", "o">>
Initials == <<"W", ".", "B", ".">>

\* The names and aliases a robot is constructed with (no alias: empty).
BotNames == {Webby, <<"w", ".", "b">>}
BotAliases == {<<>>, Bot, Web, Initials}

\* The regexes scripts hand to respondPattern: /foo/i, /foo/, /^foo/,
\* /^foo/m and /^bar|foo/.
BodyPatterns ==
  {[source |-> Foo, flags |-> <<"i">>],
   [source |-> Foo, flags |-> <<>>],
   [source |-> <<"^">> \o Foo, flags |-> <<>>],
   [source |-> <<"^">> \o Foo, flags |-> <<"m">>],
   [source |-> <<"^", "b", "a", "r", "|">> \o Foo, flags |-> <<>>]}

\* The texts the returned patterns are tried on.
Texts ==
  {Webby \o <<":", " ">> \o Foo,
   <<"@">> \o Webby \o <<" ">> \o Foo,
   <<"w", "e", "b", "b", "y", ",", " ">> \o Foo,
   Foo \o Foo \o <<" ", "w", "e", "b", "b", "y">>,
   Bot \o <<":", " ">> \o Foo,
   Web \o <<" ">> \o Foo,
   Webby \o <<":", "\n">> \o Foo}

----------------------------------------------------------------------------
(* State after construction: new Robot(...) *)

\* constructor(adapterPath, adapter, httpd, name = 'Webby', alias = false)
constructor(n, a) ==
  /\ name = n
  /\ alias = a
  /\ patterns = <<>>
  /\ listeners = <<>>
  /\ middleware = [listener |-> <<>>, response |-> <<>>, receive |-> <<>>]
  /\ errorHandlers = <<>>
  /\ registered = [listener |-> <<>>, response |-> <<>>, receive |-> <<>>]
  /\ messages = <<>>
  /\ dispatches = <<>>
  /\ reports = <<>>
  /\ exited = FALSE
  /\ sends = <<>>
  /\ outbox = <<>>

Init == constructor(<<"W", "e", "b", "b", "y">>, <<>>)

----------------------------------------------------------------------------
(* Strings and regular expressions.  A string is the sequence of its       *)
(* characters; a RegExp is its source and its flags.                       *)

UpperCase == <<"A", "B", "C", "D", "E", "F", "G", "H", "I", "J", "K", "L", "M",
               "N", "O", "P", "Q", "R", "S", "T", "U", "V", "W", "X", "Y", "Z">>
LowerCase == <<"a", "b", "c", "d", "e", "f", "g", "h", "i", "j", "k", "l", "m",
               "n", "o", "p", "q", "r", "s", "t", "u", "v", "w", "x", "y", "z">>

toLowerCase(ch) ==
  IF \E i \in 1..Len(UpperCase) : UpperCase[i] = ch
  THEN LowerCase[CHOOSE i \in 1..Len(UpperCase) : UpperCase[i] = ch]
  ELSE ch

\* What \s matches.
WhiteSpace == {" ", "\t", "\n"}

Range(s) == {s[i] : i \in 1..Len(s)}

\* new RegExp(source, flags)
RegExp(source, flags) == [source |-> source, flags |-> flags]

\* regex.toString()
toString(regex) == <<"/">> \o regex.source \o <<"/">> \o regex.flags

\* s.split(sep): the pieces of s between the occurrences of sep.
RECURSIVE split(_, _)
split(s, sep) ==
  IF \A i \in 1..Len(s) : s[i] # sep
  THEN <<s>>
  ELSE LET k == Min({i \in 1..Len(s) : s[i] = sep})
       IN  <<SubSeq(s, 1, k - 1)>> \o split(SubSeq(s, k + 1, Len(s)), sep)

\* parts.join(sep)
RECURSIVE join(_, _)
join(parts, sep) ==
  IF parts = <<>> THEN <<>>
  ELSE IF Len(parts) = 1 THEN parts[1]
  ELSE parts[1] \o <<sep>> \o join(Tail(parts), sep)

\* The characters of the class /[-[\]{}()*+?.,\\^$|#\s]/.
EscapedChars ==
  {"-", "[", "]", "{", "}", "(", ")", "*", "+", "?", ".", ",", "\\", "^",
   "$", "|", "#"} \cup WhiteSpace

\* s.replace(/[-[\]{}()*+?.,\\^$|#\s]/g, '\\$&')
RECURSIVE escape(_)
escape(s) ==
  IF s = <<>> THEN <<>>
  ELSE (IF Head(s) \in EscapedChars THEN <<"\\", Head(s)>> ELSE <<Head(s)>>)
       \o escape(Tail(s))

\* The index of the "]" that closes the character class whose content
\* starts at j.
RECURSIVE ClassClose(_, _)
ClassClose(re, j) ==
  IF j > Len(re) THEN j
  ELSE IF re[j] = "\\" THEN ClassClose(re, j + 2)
  ELSE IF re[j] = "]" THEN j
  ELSE ClassClose(re, j + 1)

\* The index of the ")" that closes the group whose content starts at j.
RECURSIVE GroupClose(_, _, _)
GroupClose(re, j, depth) ==
  IF j > Len(re) THEN j
  ELSE CASE re[j] = "\\" -> GroupClose(re, j + 2, depth)
         [] re[j] = "[" -> GroupClose(re, ClassClose(re, j + 1) + 1, depth)
         [] re[j] = "(" -> GroupClose(re, j + 1, depth + 1)
         [] re[j] = ")" -> IF depth = 1 THEN j
                           ELSE GroupClose(re, j + 1, depth - 1)
         [] OTHER -> GroupClose(re, j + 1, depth)

\* The index after the atom that starts at i: an escape, a character
\* class, a group, or one character.
AtomEnd(re, i) ==
  CASE re[i] = "\\" -> i + 2
    [] re[i] = "[" -> ClassClose(re, i + 1) + 1
    [] re[i] = "(" -> GroupClose(re, i + 1, 1) + 1
    [] OTHER -> i + 1

\* The indices in i..j-1 at which an atom, a quantifier or a "|" of this
\* nesting level starts.
RECURSIVE AtomStarts(_, _, _)
AtomStarts(re, i, j) ==
  IF i >= j THEN {} ELSE {i} \cup AtomStarts(re, AtomEnd(re, i), j)

\* Character comparison under the i flag.
SameChar(c, x, y) ==
  IF c.ignoreCase THEN toLowerCase(x) = toLowerCase(y) ELSE x = y

\* The positions after one character of the set chars, from a position of S.
Consume(c, S, chars) ==
  {p + 1 : p \in {q \in S : q <= Len(c.text) /\ c.text[q] \in chars}}

\* The characters of the text that character x of the source accepts.
Like(c, x) == {y \in Range(c.text) : SameChar(c, x, y)}

\* The matcher: the set of positions of the text at which a match of a
\* piece of the source can end, when it starts at one of the positions S.
\* c holds the source, the text and the flags.
RECURSIVE Step(_, _, _, _)
RECURSIVE Star(_, _, _, _)
RECURSIVE Concat(_, _, _, _)
RECURSIVE Alternation(_, _, _, _)

\* One match of the atom re[i..e-1].
Step(c, i, e, S) ==
  LET x == c.re[i]
  IN  CASE x = "^" ->
             {p \in S : p = 1 \/ (c.multiline /\ p > 1 /\ c.text[p - 1] = "\n")}
        [] x = "$" ->
             {p \in S : p = Len(c.text) + 1
                        \/ (c.multiline /\ p <= Len(c.text) /\ c.text[p] = "\n")}
        [] x = "." -> Consume(c, S, Range(c.text) \ {"\n"})
        [] x = "\\" ->
             IF c.re[i + 1] = "s"
             THEN Consume(c, S, WhiteSpace)
             ELSE Consume(c, S, Like(c, c.re[i + 1]))
        [] x = "[" ->
             Consume(c, S, UNION {Like(c, c.re[k]) : k \in (i + 1)..(e - 2)})
        [] x = "(" ->
             Alternation(c, IF c.re[i + 1] = "?" THEN i + 3 ELSE i + 1, e - 1, S)
        [] OTHER -> Consume(c, S, Like(c, x))

\* Zero or more matches of the atom re[i..e-1].
Star(c, i, e, S) ==
  LET T == S \cup Step(c, i, e, S)
  IN  IF T = S THEN S ELSE Star(c, i, e, T)

\* The atoms of re[i..j-1], with their quantifiers, one after the other.
Concat(c, i, j, S) ==
  IF i >= j \/ S = {} THEN S
  ELSE LET e == AtomEnd(c.re, i)
           q == IF e < j THEN c.re[e] ELSE ""
       IN  CASE q = "?" -> Concat(c, e + 1, j, S \cup Step(c, i, e, S))
             [] q = "*" -> Concat(c, e + 1, j, Star(c, i, e, S))
             [] q = "+" -> Concat(c, e + 1, j, Star(c, i, e, Step(c, i, e, S)))
             [] OTHER -> Concat(c, e, j, Step(c, i, e, S))

\* The alternatives of re[i..j-1], separated by "|".
Alternation(c, i, j, S) ==
  LET bars    == {k \in AtomStarts(c.re, i, j) : c.re[k] = "|"}
      starts  == {i} \cup {k + 1 : k \in bars}
      stop(a) == Min({k \in bars : k >= a} \cup {j})
  IN  UNION {Concat(c, a, stop(a), S) : a \in starts}

\* regex.test(text): the regex matches somewhere in the text.
test(regex, text) ==
  LET c == [re |-> regex.source, text |-> text,
            ignoreCase |-> "i" \in Range(regex.flags),
            multiline |-> "m" \in Range(regex.flags)]
  IN  \E p \in 1..(Len(text) + 1) :
        Alternation(c, 1, Len(c.re) + 1, {p}) # {}

----------------------------------------------------------------------------
(* Robot.respondPattern *)

\* Mutant: the flags of the regex are not carried over.
respondPatternDropsFlags(regex) ==
  [regex    |-> RegExp(<<"^", "\\", "s", "*", "[", "@", "]", "?">> \o escape(name)
                       \o <<"[", ":", ",", "]", "?", "\\", "s", "*", "(", "?", ":">>
                       \o regex.source \o <<")">>, <<>>),
   warnings |-> 0]

\* Mutant: the alias is left out of the pattern.
respondPatternWithoutAlias(regex) ==
  [regex    |-> RegExp(<<"^", "\\", "s", "*", "[", "@", "]", "?">> \o escape(name)
                       \o <<"[", ":", ",", "]", "?", "\\", "s", "*", "(", "?", ":">>
                       \o regex.source \o <<")">>, regex.flags),
   warnings |-> 0]

\* Mutant: a start-anchor at the head of the body is taken off.
respondPatternStripsAnchor(regex) ==
  LET n       == escape(name)
      al      == escape(alias)
      a       == IF Len(n) > Len(al) THEN n ELSE al
      b       == IF Len(n) > Len(al) THEN al ELSE n
      pattern == IF regex.source[1] = "^" THEN Tail(regex.source)
                 ELSE regex.source
  IN  [regex    |-> RegExp(<<"^", "\\", "s", "*", "[", "@", "]", "?">>
                           \o (IF alias # <<>>
                               THEN <<"(", "?", ":">> \o a
                                    \o <<"[", ":", ",", "]", "?", "|">> \o b
                                    \o <<"[", ":", ",", "]", "?", ")">>
                               ELSE n \o <<"[", ":", ",", "]", "?">>)
                           \o <<"\\", "s", "*", "(", "?", ":">>
                           \o pattern \o <<")">>, regex.flags),
       warnings |-> IF regex.source[1] = "^" THEN 2 ELSE 0]

\* Mutant: name and alias are compared as they are written, unescaped.
respondPatternComparesUnescaped(regex) ==
  LET n  == escape(name)
      al == escape(alias)
      a  == IF Len(name) > Len(alias) THEN n ELSE al
      b  == IF Len(name) > Len(alias) THEN al ELSE n
  IN  [regex    |-> RegExp(<<"^", "\\", "s", "*", "[", "@", "]", "?">>
                           \o (IF alias # <<>>
                               THEN <<"(", "?", ":">> \o a
                                    \o <<"[", ":", ",", "]", "?", "|">> \o b
                                    \o <<"[", ":", ",", "]", "?", ")">>
                               ELSE n \o <<"[", ":", ",", "]", "?">>)
                           \o <<"\\", "s", "*", "(", "?", ":">>
                           \o regex.source \o <<")">>, regex.flags),
       warnings |-> IF regex.source[1] = "^" THEN 2 ELSE 0]

\* respondPattern(regex): the RegExp it returns and the number of warnings
\* it logs.
respondPattern(regex) ==
  LET parts     == Tail(split(toString(regex), "/"))
      modifiers == parts[Len(parts)]
      re        == SubSeq(parts, 1, Len(parts) - 1)
      anchored  == re[1] # <<>> /\ re[1][1] = "^"
      pattern   == join(re, "/")
      n         == escape(name)
      al        == escape(alias)
      a         == IF Len(n) > Len(al) THEN n ELSE al
      b         == IF Len(n) > Len(al) THEN al ELSE n
      tail      == <<"\\", "s", "*", "(", "?", ":">> \o pattern \o <<")">>
      address   ==
        IF alias # <<>>
        THEN <<"(", "?", ":">> \o a \o <<"[", ":", ",", "]", "?", "|">>
             \o b \o <<"[", ":", ",", "]", "?", ")">>
        ELSE n \o <<"[", ":", ",", "]", "?">>
  IN  [regex    |-> RegExp(<<"^", "\\", "s", "*", "[", "@", "]", "?">>
                           \o address \o tail, modifiers),
       warnings |-> IF anchored THEN 2 ELSE 0]

\* A script calls respondPattern(regex) and keeps the RegExp it returns.
respondPatternCall(regex) ==
  /\ ~exited
  /\ Len(patterns) < MaxPatterns
  /\ patterns' = Append(patterns,
       [regex    |-> regex,
        returned |-> respondPattern(regex).regex,
        warnings |-> respondPattern(regex).warnings,
        text     |-> <<>>,
        matched  |-> "untested"])
  /\ UNCHANGED <<listeners, middleware, errorHandlers, registered,
                 dispatchVars, outboundVars, name, alias>>

\* The script tries the n-th RegExp on a text: returned.test(text).
testCall(n, text) ==
  /\ ~exited
  /\ patterns[n].matched = "untested"
  /\ patterns' = [patterns EXCEPT
       ![n].text = text,
       ![n].matched = IF test(patterns[n].returned, text) THEN "yes" ELSE "no"]
  /\ UNCHANGED <<listeners, middleware, errorHandlers, registered,
                 dispatchVars, outboundVars, name, alias>>

----------------------------------------------------------------------------
(* Listener registration *)

\* new Listener(robot, matcher, options, callback) / new TextListener(...)
Listener(matcher, options, callback, unwrap) ==
  [matcher |-> matcher, options |-> options, callback |-> callback,
   unwrap |-> unwrap]

\* options: the empty object {}, or an object with a key ({id: ...}).
EmptyOptions == "{}"

Options == {EmptyOptions, "{id}"}

\* An argument the caller left out.
Null == "null"

listen(matcher, options, callback, unwrap) ==
  /\ ~exited
  /\ Len(listeners) < MaxListeners
  /\ listeners' = Append(listeners, Listener(matcher, options, callback, unwrap))
  /\ UNCHANGED <<middleware, errorHandlers, registered, dispatchVars,
                 outboundVars, patternVars>>

\* A script registers a generic listener whose matcher throws.
listenFaulty == listen("throws", EmptyOptions, "ok", FALSE)

\* Mutant: the new TextListener is put at the front of the registry.
hearUnshift(callback) ==
  /\ ~exited
  /\ Len(listeners) < MaxListeners
  /\ listeners' = <<Listener("hear", EmptyOptions, callback, FALSE)>> \o listeners
  /\ UNCHANGED <<middleware, errorHandlers, registered, dispatchVars,
                 outboundVars, patternVars>>

hear(callback) ==
  /\ ~exited
  /\ Len(listeners) < MaxListeners
  /\ listeners' = Append(listeners, Listener("hear", EmptyOptions, callback, FALSE))
  /\ UNCHANGED <<middleware, errorHandlers, registered, dispatchVars,
                 outboundVars, patternVars>>

\* respond(regex, options, callback): hear(respondPattern(regex), ...).  The
\* TextListener holds the pattern respondPattern built.
respond(callback) ==
  /\ ~exited
  /\ Len(listeners) < MaxListeners
  /\ listeners' = Append(listeners, Listener("respond", EmptyOptions, callback, FALSE))
  /\ UNCHANGED <<middleware, errorHandlers, registered, dispatchVars,
                 outboundVars, patternVars>>

enter(callback) == listen("enter", EmptyOptions, callback, FALSE)

leave(callback) == listen("leave", EmptyOptions, callback, FALSE)

topic(callback) == listen("topic", EmptyOptions, callback, FALSE)

\* leave and topic as src/robot.js has them: the matcher each hands to
\* listen tests msg instanceof EnterMessage.  (That file stubs ./listener;
\* the listener is registered as listen documents it.)
leave_robot_js(callback) == listen("leave_robot_js", EmptyOptions, callback, FALSE)

topic_robot_js(callback) == listen("topic_robot_js", EmptyOptions, callback, FALSE)

\* Mutant: the script's callback is registered as it is, and is handed the
\* response around the CatchAllMessage.
catchAllKeepsWrapper(options, callback) ==
  IF callback = Null
  THEN listen("catchAll", EmptyOptions, options, FALSE)
  ELSE listen("catchAll", options, callback, FALSE)

\* catchAll(options, callback): called with one argument, that argument is
\* the callback and the options are {}.  The registered callback first
\* replaces the response's message by the message the CatchAllMessage
\* wraps, then calls the script's callback.
catchAll(options, callback) ==
  IF callback = Null
  THEN listen("catchAll", EmptyOptions, options, TRUE)
  ELSE listen("catchAll", options, callback, TRUE)

error(callback) ==
  /\ ~exited
  /\ Len(errorHandlers) < MaxErrorHandlers
  /\ errorHandlers' = Append(errorHandlers, callback)
  /\ UNCHANGED <<listeners, middleware, registered, dispatchVars,
                 outboundVars, patternVars>>

----------------------------------------------------------------------------
(* Middleware registration *)

\* Middleware.register(fn): append, registration order = execution order.
MiddlewareRegister(stage, fn) ==
  [middleware EXCEPT ![stage] = Append(@, fn)]

\* Mutant: the function is registered on the receive stage.
listenerMiddlewareOnReceive(fn) ==
  /\ ~exited
  /\ Len(middleware.listener) < MaxMiddleware
  /\ middleware' = MiddlewareRegister("receive", fn)
  /\ registered' = [registered EXCEPT !.listener = Append(@, fn)]
  /\ UNCHANGED <<listeners, errorHandlers, dispatchVars, outboundVars, patternVars>>

listenerMiddleware(fn) ==
  /\ ~exited
  /\ Len(middleware.listener) < MaxMiddleware
  /\ middleware' = MiddlewareRegister("listener", fn)
  /\ registered' = [registered EXCEPT !.listener = Append(@, fn)]
  /\ UNCHANGED <<listeners, errorHandlers, dispatchVars, outboundVars, patternVars>>

\* Mutant: the function is registered on the listener stage.
responseMiddlewareOnListener(fn) ==
  /\ ~exited
  /\ Len(middleware.response) < MaxMiddleware
  /\ middleware' = MiddlewareRegister("listener", fn)
  /\ registered' = [registered EXCEPT !.response = Append(@, fn)]
  /\ UNCHANGED <<listeners, errorHandlers, dispatchVars, outboundVars, patternVars>>

responseMiddleware(fn) ==
  /\ ~exited
  /\ Len(middleware.response) < MaxMiddleware
  /\ middleware' = MiddlewareRegister("response", fn)
  /\ registered' = [registered EXCEPT !.response = Append(@, fn)]
  /\ UNCHANGED <<listeners, errorHandlers, dispatchVars, outboundVars, patternVars>>

receiveMiddleware(fn) ==
  /\ ~exited
  /\ Len(middleware.receive) < MaxMiddleware
  /\ middleware' = MiddlewareRegister("receive", fn)
  /\ registered' = [registered EXCEPT !.receive = Append(@, fn)]
  /\ UNCHANGED <<listeners, errorHandlers, dispatchVars, outboundVars, patternVars>>

----------------------------------------------------------------------------
(* Error channel *)

\* invokeErrorHandlers(err, res).  forEach is given a plain function, so
\* inside it `this` is undefined (class bodies are strict code): when a
\* handler throws, the catch block's this.logger.error(...) throws a
\* TypeError of its own, which leaves forEach and invokeErrorHandlers.
\* invoked: how many handlers were called; calls: the calls made, in the
\* order they were made, each with the handler's index and its arguments.

\* Mutant: the handlers are called last registered first.
invokeErrorHandlersReversed(err, res) ==
  [err        |-> err,
   res        |-> res,
   registered |-> Len(errorHandlers),
   invoked    |-> Len(errorHandlers),
   calls      |-> [i \in 1..Len(errorHandlers) |->
                    [handler |-> Len(errorHandlers) + 1 - i,
                     err |-> err, res |-> res]],
   escaped    |-> FALSE]

invokeErrorHandlers(err, res) ==
  LET throwers == {i \in 1..Len(errorHandlers) : errorHandlers[i] = "throws"}
      invoked  == IF throwers = {} THEN Len(errorHandlers) ELSE Min(throwers)
  IN  [err        |-> err,
       res        |-> res,
       registered |-> Len(errorHandlers),
       invoked    |-> invoked,
       calls      |-> [i \in 1..invoked |->
                        [handler |-> i, err |-> err, res |-> res]],
       escaped    |-> throwers # {}]

\* this.emit('error', err, res): the EventEmitter calls the listener the
\* constructor registered, synchronously; what it throws reaches the emitter.
emitError(err, res) == invokeErrorHandlers(err, res)

\* new Response(robot, message): the response of dispatch k around message
\* id; NoResponse when 'error' is emitted without one.
Response(k, id) == [dispatch |-> k, message |-> id]
NoResponse == [dispatch |-> 0, message |-> 0]

Error(kind, d, i) == [kind |-> kind, dispatch |-> d, idx |-> i]

----------------------------------------------------------------------------
(* Messages *)

\* new TextMessage(...) / new EnterMessage(...): done starts false.
Message(variant) == [variant |-> variant, done |-> FALSE, message |-> 0]

\* new CatchAllMessage(message): wraps one message, with a done flag of its own.
CatchAllMessage(id) == [variant |-> "CatchAll", done |-> FALSE, message |-> id]

Truth(b) == IF b THEN "match" ELSE "nomatch"

\* A TextListener's matcher: the regex against the text of a text message;
\* the messages of the model carry a text the regex accepts.
TextListenerMatcher(message) == message.variant = "Text"

\* listener.matcher(message): "match", "nomatch", or "throws".
Match(listener, message) ==
  CASE listener.matcher = "hear"     -> Truth(TextListenerMatcher(message))
    [] listener.matcher = "respond"  -> Truth(TextListenerMatcher(message))
    [] listener.matcher = "enter"    -> Truth(message.variant = "Enter")
    [] listener.matcher = "leave"    -> Truth(message.variant = "Leave")
    [] listener.matcher = "topic"    -> Truth(message.variant = "Topic")
    [] listener.matcher = "leave_robot_js" -> Truth(message.variant = "Enter")
    [] listener.matcher = "topic_robot_js" -> Truth(message.variant = "Enter")
    [] listener.matcher = "catchAll" -> Truth(message.variant = "CatchAll")
    [] listener.matcher = "throws"   -> "throws"

----------------------------------------------------------------------------
(* One dispatch: the state of a receive(message, cb) call *)

\* pc: the continuation the event loop holds for this dispatch
\*   "receive"  the receive chain, about to run step mwi
\*   "listener" the listener chain of listener idx, about to run step mwi
\*   "tick"     Middleware.ticker(() => cb(message.done)) for listener idx
\*   "settle"   process.nextTick(done)
\*   "settled"  cb has been called
\*   "stalled"  a middleware kept the chain's continuations and called none
\*   "dead"     the turn was cut short by an exception nothing caught
\* History fields: doneAtReceive (the message's done flag when the adapter
\* called receive), registry (the length of this.listeners at that moment),
\* inFlight (the dispatches that had not called back at that moment),
\* cbCalls, wraps, cbInReceive (cb ran in a turn in which receive was
\* called), log (what the dispatch did, in order).
NewDispatch(id, done) ==
  [msg |-> id, doneAtReceive |-> done, registry |-> Len(listeners),
   inFlight |-> {j \in 1..Len(dispatches) :
                   dispatches[j].pc \notin {"settled", "dead"}},
   cur |-> id, pass |-> 0, pc |-> "new", idx |-> 0, mwi |-> 0,
   len |-> 0, anyListenersExecuted |-> FALSE, cbCalls |-> 0, wraps |-> 0,
   cbInReceive |-> FALSE, log |-> <<>>]

Event(e, d, i, j) == [e |-> e, pass |-> d.pass, i |-> i, j |-> j]

Note(d, e, i, j) == [d EXCEPT !.log = Append(@, Event(e, d, i, j))]

\* The result of one synchronous turn on dispatch k: its record, the heap,
\* the 'error' events emitted, whether an exception left the turn, and
\* whether receive was called during the turn.
Turn(k) ==
  [k |-> k, d |-> dispatches[k], msgs |-> messages, reps |-> <<>>,
   thrown |-> FALSE, inReceive |-> FALSE]

\* cb(): the adapter's callback runs.
InvokeCb(r) ==
  [r EXCEPT !.d = [Note(r.d, "cb", 0, 0) EXCEPT
                     !.pc = "settled",
                     !.cbCalls = @ + 1,
                     !.cbInReceive = @ \/ r.inReceive]]

\* An exception leaves the turn: the rest of the turn does not run.
Throw(r, rep) ==
  [r EXCEPT !.d.pc = "dead", !.reps = Append(@, rep), !.thrown = TRUE]

\* The iterator's callback of processListeners: fold the listener's answer
\* into anyListenersExecuted, then Middleware.ticker(() => cb(message.done)).
Answered(r, listenerExecuted) ==
  [r EXCEPT !.d.anyListenersExecuted = @ \/ listenerExecuted,
            !.d.pc = "tick"]

----------------------------------------------------------------------------
(* Middleware.execute(context, next, done) *)

\* Mutant: the chain runs its first step inside execute, so a first receive
\* middleware that calls done() runs cb before execute returns.
MiddlewareExecuteAtOnce(r, stage) ==
  IF stage = "receive" /\ Len(middleware.receive) > 0
     /\ middleware.receive[1] = "done"
  THEN InvokeCb(r)
  ELSE [r EXCEPT !.d.pc = stage, !.d.mwi = 1]

\* The chain starts at index 0 on a later turn; every step is a turn.
MiddlewareExecute(r, stage) ==
  [r EXCEPT !.d.pc = stage, !.d.mwi = 1]

\* Step j of a stage's chain: past the end of the stack the chain is
\* complete; otherwise the middleware calls next, calls done, throws, or
\* returns without calling either ("stalls").
MiddlewareStep(stage, j) ==
  IF j > Len(middleware[stage]) THEN "complete" ELSE middleware[stage][j]

\* Mutant: the engine gives up on a middleware that answers nothing and
\* calls the chain's done.
StallTimesOut(r) ==
  [r EXCEPT !.d = [Note(r.d, "cb", 0, 0) EXCEPT
                     !.pc = "settled", !.cbCalls = @ + 1]]

\* A middleware that calls neither next nor done: the chain holds no
\* continuation any more, and nothing is pending for the dispatch.
Stall(r) == [r EXCEPT !.d.pc = "stalled"]

----------------------------------------------------------------------------
(* Robot.receive and Robot.processListeners *)

\* Mutant: the catch-all re-dispatch goes to the listener search at once,
\* past the receive middleware.
ReceiveOnceThroughChain(r, id) ==
  [r EXCEPT !.d.cur = id, !.d.pass = @ + 1, !.inReceive = TRUE,
            !.d.pc = "receive",
            !.d.mwi = IF r.d.pass = 0 THEN 1 ELSE Len(middleware.receive) + 1]

\* receive(message, cb): a fresh context around the message, then the
\* receive chain with processListeners as completion and cb as done.
Receive(r, id) ==
  MiddlewareExecute(
    [r EXCEPT !.d.cur = id, !.d.pass = @ + 1, !.inReceive = TRUE],
    "receive")

\* Mutant: the fallback forgets to look at the message's variant.
FinalWrapsAnyVariant(r) ==
  LET r0 == [r EXCEPT !.d = Note(r.d, "final", 0, 0)]
  IN  IF ~r.d.anyListenersExecuted
      THEN Receive([r0 EXCEPT !.msgs = Append(@, CatchAllMessage(r.d.cur)),
                              !.d = [Note(r0.d, "wrap", 0, 0) EXCEPT
                                       !.wraps = @ + 1]],
                   Len(r.msgs) + 1)
      ELSE [r0 EXCEPT !.d.pc = "settle"]

\* Mutant: the fallback is taken once per message object, not once per call.
FinalWrapsOncePerMessage(r) ==
  LET r0 == [r EXCEPT !.d = Note(r.d, "final", 0, 0)]
      wrapped == \E id \in 1..Len(r.msgs) : r.msgs[id].message = r.d.cur
  IN  IF r.msgs[r.d.cur].variant # "CatchAll" /\ ~r.d.anyListenersExecuted
         /\ ~wrapped
      THEN Receive([r0 EXCEPT !.msgs = Append(@, CatchAllMessage(r.d.cur)),
                              !.d = [Note(r0.d, "wrap", 0, 0) EXCEPT
                                       !.wraps = @ + 1]],
                   Len(r.msgs) + 1)
      ELSE [r0 EXCEPT !.d.pc = "settle"]

\* Mutant: anyListenersExecuted is one flag of the robot, which every
\* dispatch in flight reads and writes.
FinalSharedFlag(r) ==
  LET r0 == [r EXCEPT !.d = Note(r.d, "final", 0, 0)]
      anyListenersExecuted ==
        \/ r.d.anyListenersExecuted
        \/ \E j \in 1..Len(dispatches) :
             /\ dispatches[j].pc \notin {"settled", "dead"}
             /\ dispatches[j].anyListenersExecuted
  IN  IF r.msgs[r.d.cur].variant # "CatchAll" /\ ~anyListenersExecuted
      THEN Receive([r0 EXCEPT !.msgs = Append(@, CatchAllMessage(r.d.cur)),
                              !.d = [Note(r0.d, "wrap", 0, 0) EXCEPT
                                       !.wraps = @ + 1]],
                   Len(r.msgs) + 1)
      ELSE [r0 EXCEPT !.d.pc = "settle"]

\* The final callback of detectSeries.
Final(r) ==
  LET r0 == [r EXCEPT !.d = Note(r.d, "final", 0, 0)]
  IN  IF r.msgs[r.d.cur].variant # "CatchAll" /\ ~r.d.anyListenersExecuted
      THEN Receive([r0 EXCEPT !.msgs = Append(@, CatchAllMessage(r.d.cur)),
                              !.d = [Note(r0.d, "wrap", 0, 0) EXCEPT
                                       !.wraps = @ + 1]],
                   Len(r.msgs) + 1)
      ELSE [r0 EXCEPT !.d.pc = "settle"]

\* async.detectSeries(this.listeners, iterator, final), from listener i on,
\* for as long as the iterator answers within the turn.  The iterator's
\* catch block answers cb(false) at once; Listener.call answers later.
RECURSIVE detectSeries(_, _)
detectSeries(r, i) ==
  IF i > r.d.len
  THEN Final(r)
  ELSE LET res == Match(listeners[i], r.msgs[r.d.cur])
           r1  == [r EXCEPT !.d = [Note(r.d, "try", i, 0) EXCEPT !.idx = i]]
       IN  CASE res = "throws" ->
                  LET rep == emitError(Error("matcher", r.k, i), Response(r.k, r.d.cur))
                  IN  IF rep.escaped
                      THEN Throw(r1, rep)
                      ELSE detectSeries([r1 EXCEPT !.reps = Append(@, rep)], i + 1)
             [] res = "nomatch" ->
                  \* Listener.call answers listenerExecuted = false
                  Answered(r1, FALSE)
             [] res = "match" ->
                  MiddlewareExecute(r1, "listener")

\* Mutant: the catch-all pass searches as many listeners as the first pass.
processListenersKeepsLength(r) ==
  LET flag == IF r.msgs[r.d.cur].done THEN 1 ELSE 0
  IN  detectSeries(
        [r EXCEPT !.d = [Note(r.d, "search", Len(listeners), flag) EXCEPT
                           !.anyListenersExecuted = FALSE,
                           !.len = IF r.d.pass = 1 THEN Len(listeners) ELSE @]], 1)

\* processListeners(context, done)
processListeners(r) ==
  LET flag == IF r.msgs[r.d.cur].done THEN 1 ELSE 0
  IN  detectSeries(
        [r EXCEPT !.d = [Note(r.d, "search", Len(listeners), flag) EXCEPT
                           !.anyListenersExecuted = FALSE,
                           !.len = Len(listeners)]], 1)

----------------------------------------------------------------------------
(* The turns of a dispatch *)

\* The message of the Response a listener's callback is given.  The callback
\* catchAll registers has replaced it by the message the CatchAll wraps.
ResponseMessage(listener, r) ==
  IF listener.unwrap THEN r.msgs[r.d.cur].message ELSE r.d.cur

\* Listener.call, once the listener chain completed: run the callback; a
\* callback that throws is reported and counts as not executed.  The "run"
\* event keeps the message of the response the script's callback is given.
executeListener(r) ==
  LET i  == r.d.idx
      l  == listeners[i]
      r1 == [r EXCEPT !.d = Note(r.d, "run", i, ResponseMessage(l, r))]
  IN  CASE l.callback = "ok" ->
             Answered(r1, TRUE)
        [] l.callback = "finish" ->
             Answered([r1 EXCEPT !.msgs[ResponseMessage(l, r)].done = TRUE], TRUE)
        [] l.callback = "throws" ->
             LET rep == emitError(Error("callback", r.k, i), Response(r.k, r.d.cur))
             IN  IF rep.escaped
                 THEN Throw([r1 EXCEPT !.d = Note(r1.d, "threw", i, 0)], rep)
                 ELSE Answered([r1 EXCEPT !.d = Note(r1.d, "threw", i, 0),
                                          !.reps = Append(@, rep)], FALSE)

\* Mutant: a listener whose chain was aborted is reported as executed.
ListenerChainStepAbortExecutes(r) ==
  LET j    == r.d.mwi
      step == MiddlewareStep("listener", j)
      r1   == [r EXCEPT !.d = Note(r.d, "lmw", r.d.idx, j)]
  IN  CASE step = "complete" -> executeListener(r)
        [] step = "next" -> [r1 EXCEPT !.d.mwi = j + 1]
        [] step = "stalls" -> Stall(r1)
        [] step = "done" -> Answered(r1, TRUE)
        [] step = "throws" ->
             LET rep == emitError(Error("middleware", r.k, j), Response(r.k, r.d.cur))
             IN  IF rep.escaped
                 THEN Throw(r1, rep)
                 ELSE Answered([r1 EXCEPT !.reps = Append(@, rep)], FALSE)

\* One step of the listener chain around listener idx.
ListenerChainStep(r) ==
  LET j    == r.d.mwi
      step == MiddlewareStep("listener", j)
      r1   == [r EXCEPT !.d = Note(r.d, "lmw", r.d.idx, j)]
  IN  CASE step = "complete" -> executeListener(r)
        [] step = "next" -> [r1 EXCEPT !.d.mwi = j + 1]
        [] step = "stalls" -> Stall(r1)
        [] step = "done" -> Answered(r1, FALSE)
        [] step = "throws" ->
             LET rep == emitError(Error("middleware", r.k, j), Response(r.k, r.d.cur))
             IN  IF rep.escaped
                 THEN Throw(r1, rep)
                 ELSE Answered([r1 EXCEPT !.reps = Append(@, rep)], FALSE)

\* Mutant: receive hands processListeners to the chain as done as well.
ReceiveChainStepDoneSearches(r) ==
  LET j    == r.d.mwi
      step == MiddlewareStep("receive", j)
      r1   == [r EXCEPT !.d = Note(r.d, "rmw", 0, j)]
  IN  CASE step = "complete" -> processListeners(r)
        [] step = "next" -> [r1 EXCEPT !.d.mwi = j + 1]
        [] step = "stalls" -> Stall(r1)
        [] step = "finish" ->
             [r1 EXCEPT !.msgs[r.d.cur].done = TRUE, !.d.mwi = j + 1]
        [] step = "doneOnCatchAll" ->
             IF r.msgs[r.d.cur].variant = "CatchAll"
             THEN processListeners(r1)
             ELSE [r1 EXCEPT !.d.mwi = j + 1]
        [] step = "done" -> processListeners(r1)
        [] step = "throws" ->
             LET rep == emitError(Error("middleware", r.k, j), Response(r.k, r.d.cur))
             IN  IF rep.escaped
                 THEN Throw(r1, rep)
                 ELSE InvokeCb([r1 EXCEPT !.reps = Append(@, rep)])

\* One step of the receive chain: completion is processListeners, done is cb.
\* A receive middleware may also look at context.response.message: "finish"
\* calls message.finish() and then next, "doneOnCatchAll" calls done for a
\* CatchAllMessage and next for every other message.
ReceiveChainStep(r) ==
  LET j    == r.d.mwi
      step == MiddlewareStep("receive", j)
      r1   == [r EXCEPT !.d = Note(r.d, "rmw", 0, j)]
  IN  CASE step = "complete" -> processListeners(r)
        [] step = "next" -> [r1 EXCEPT !.d.mwi = j + 1]
        [] step = "stalls" -> Stall(r1)
        [] step = "finish" ->
             [r1 EXCEPT !.msgs[r.d.cur].done = TRUE, !.d.mwi = j + 1]
        [] step = "doneOnCatchAll" ->
             IF r.msgs[r.d.cur].variant = "CatchAll"
             THEN InvokeCb(r1)
             ELSE [r1 EXCEPT !.d.mwi = j + 1]
        [] step = "done" -> InvokeCb(r1)
        [] step = "throws" ->
             LET rep == emitError(Error("middleware", r.k, j), Response(r.k, r.d.cur))
             IN  IF rep.escaped
                 THEN Throw(r1, rep)
                 ELSE InvokeCb([r1 EXCEPT !.reps = Append(@, rep)])

\* Mutant: the ticker answers cb(false) whatever the done flag says.
TickerStepIgnoresDone(r) ==
  detectSeries([r EXCEPT !.d = Note(r.d, "tick", r.d.idx, 0)], r.d.idx + 1)

\* The ticker fires: cb(context.response.message.done).
TickerStep(r) ==
  LET r1 == [r EXCEPT !.d = Note(r.d, "tick", r.d.idx, 0)]
  IN  IF r.msgs[r.d.cur].done THEN Final(r1) ELSE detectSeries(r1, r.d.idx + 1)

\* this.onUncaughtException: emit('error', err).  An exception that leaves
\* this hook as well ends the process.
onUncaughtException(k) == emitError(Error("uncaught", k, 0), NoResponse)

\* The state after the turn.
Commit(r, ds) ==
  /\ dispatches' = [ds EXCEPT ![r.k] = r.d]
  /\ messages' = r.msgs
  /\ IF r.thrown
     THEN /\ reports' = reports \o r.reps \o <<onUncaughtException(r.k)>>
          /\ exited' = onUncaughtException(r.k).escaped
     ELSE /\ reports' = reports \o r.reps
          /\ UNCHANGED exited
  /\ UNCHANGED <<listeners, middleware, errorHandlers, registered,
                 outboundVars, patternVars>>

\* The adapter calls robot.receive(message, cb) with a new message.
receive(variant) ==
  /\ ~exited
  /\ Len(dispatches) < MaxDispatches
  /\ LET id == Len(messages) + 1
         k  == Len(dispatches) + 1
         d0 == NewDispatch(id, FALSE)
         r0 == [k |-> k, d |-> d0,
                msgs |-> Append(messages, Message(variant)), reps |-> <<>>,
                thrown |-> FALSE, inReceive |-> FALSE]
     IN  Commit(Receive(r0, id), Append(dispatches, d0))

\* Mutant: receive clears the done flag of the message it is handed.
receiveAgainResetsDone(id) ==
  /\ ~exited
  /\ Len(dispatches) < MaxDispatches
  /\ \E j \in 1..Len(dispatches) : dispatches[j].msg = id
  /\ LET k  == Len(dispatches) + 1
         d0 == NewDispatch(id, FALSE)
         r0 == [k |-> k, d |-> d0,
                msgs |-> [messages EXCEPT ![id].done = FALSE],
                reps |-> <<>>, thrown |-> FALSE, inReceive |-> FALSE]
     IN  Commit(Receive(r0, id), Append(dispatches, d0))

\* The adapter calls robot.receive(message, cb) with a message object it
\* has passed before.
receiveAgain(id) ==
  /\ ~exited
  /\ Len(dispatches) < MaxDispatches
  /\ \E j \in 1..Len(dispatches) : dispatches[j].msg = id
  /\ LET k  == Len(dispatches) + 1
         d0 == NewDispatch(id, messages[id].done)
         r0 == [k |-> k, d |-> d0, msgs |-> messages,
                reps |-> <<>>, thrown |-> FALSE, inReceive |-> FALSE]
     IN  Commit(Receive(r0, id), Append(dispatches, d0))

ReceiveChain(k) ==
  /\ ~exited
  /\ dispatches[k].pc = "receive"
  /\ Commit(ReceiveChainStep(Turn(k)), dispatches)

ListenerChain(k) ==
  /\ ~exited
  /\ dispatches[k].pc = "listener"
  /\ Commit(ListenerChainStep(Turn(k)), dispatches)

Ticker(k) ==
  /\ ~exited
  /\ dispatches[k].pc = "tick"
  /\ Commit(TickerStep(Turn(k)), dispatches)

\* process.nextTick(done) fires.
NextTick(k) ==
  /\ ~exited
  /\ dispatches[k].pc = "settle"
  /\ Commit(InvokeCb(Turn(k)), dispatches)

----------------------------------------------------------------------------
(* Outbound messages *)

\* What the adapter's send or reply primitive was handed.  History fields:
\* by (who called the adapter) and viaChain (the response chain was run
\* for this message and completed).
Delivery(method, envelope, by, viaChain) ==
  [method |-> method, envelope |-> envelope, by |-> by, viaChain |-> viaChain]

HelperDeliveries == {n \in 1..Len(outbox) : outbox[n].by # "Response"}

\* Mutant: reply hands the strings to the adapter's send.
replyUsesSend ==
  /\ ~exited
  /\ Cardinality(HelperDeliveries) < MaxSends
  /\ outbox' = Append(outbox, Delivery("send", "user", "reply", FALSE))
  /\ UNCHANGED <<listeners, middleware, errorHandlers, registered,
                 dispatchVars, sends, patternVars>>

\* send(user, ...strings): this.adapter.send(user, ...strings)
send ==
  /\ ~exited
  /\ Cardinality(HelperDeliveries) < MaxSends
  /\ outbox' = Append(outbox, Delivery("send", "user", "send", FALSE))
  /\ UNCHANGED <<listeners, middleware, errorHandlers, registered,
                 dispatchVars, sends, patternVars>>

\* reply(user, ...strings): this.adapter.reply(user, ...strings)
reply ==
  /\ ~exited
  /\ Cardinality(HelperDeliveries) < MaxSends
  /\ outbox' = Append(outbox, Delivery("reply", "user", "reply", FALSE))
  /\ UNCHANGED <<listeners, middleware, errorHandlers, registered,
                 dispatchVars, sends, patternVars>>

\* messageRoom(room, ...strings): this.adapter.send({room: room}, ...strings)
messageRoom ==
  /\ ~exited
  /\ Cardinality(HelperDeliveries) < MaxSends
  /\ outbox' = Append(outbox, Delivery("send", "room", "messageRoom", FALSE))
  /\ UNCHANGED <<listeners, middleware, errorHandlers, registered,
                 dispatchVars, sends, patternVars>>

\* A script calls res.send(...) or res.reply(...): the strings enter the
\* response chain.
ResponseSend(method) ==
  /\ ~exited
  /\ Len(sends) < MaxSends
  /\ sends' = Append(sends, [method |-> method, pc |-> "response", mwi |-> 1])
  /\ UNCHANGED <<listeners, middleware, errorHandlers, registered,
                 dispatchVars, outbox, patternVars>>

\* One step of the response chain of outbound message n: its completion
\* hands the strings to the adapter, its done drops them.
ResponseChain(n) ==
  /\ ~exited
  /\ sends[n].pc = "response"
  /\ LET j    == sends[n].mwi
         step == MiddlewareStep("response", j)
         rep  == emitError(Error("middleware", 0, j), NoResponse)
     IN  CASE step = "complete" ->
                /\ sends' = [sends EXCEPT ![n].pc = "sent"]
                /\ outbox' = Append(outbox,
                     Delivery(sends[n].method, "user", "Response", TRUE))
                /\ UNCHANGED <<reports, exited>>
           [] step = "next" ->
                /\ sends' = [sends EXCEPT ![n].mwi = j + 1]
                /\ UNCHANGED <<outbox, reports, exited>>
           [] step = "done" ->
                /\ sends' = [sends EXCEPT ![n].pc = "dropped"]
                /\ UNCHANGED <<outbox, reports, exited>>
           [] step = "stalls" ->
                /\ sends' = [sends EXCEPT ![n].pc = "stalled"]
                /\ UNCHANGED <<outbox, reports, exited>>
           [] step = "throws" ->
                /\ sends' = [sends EXCEPT ![n].pc = "dropped"]
                /\ reports' = IF rep.escaped
                              THEN reports \o <<rep, onUncaughtException(0)>>
                              ELSE Append(reports, rep)
                /\ exited' = rep.escaped
                /\ UNCHANGED outbox
  /\ UNCHANGED <<listeners, middleware, errorHandlers, registered, messages,
                 dispatches, patternVars>>

----------------------------------------------------------------------------
(* The dispatcher with its listeners and its error channel.  Scripts        *)
(* register while the robot is being set up; the adapter then delivers      *)
(* messages one after the other.                                             *)

\* No message has been delivered yet.
Setup == dispatches = <<>>

\* Every dispatch begun so far has called back.
Idle == \A k \in 1..Len(dispatches) : dispatches[k].pc = "settled"

Deliver ==
  \/ \E v \in InboundVariants : Idle /\ receive(v)
  \/ \E id \in 1..Len(messages) : Idle /\ receiveAgain(id)

Turns ==
  \/ \E k \in 1..Len(dispatches) : ReceiveChain(k)
  \/ \E k \in 1..Len(dispatches) : ListenerChain(k)
  \/ \E k \in 1..Len(dispatches) : Ticker(k)
  \/ \E k \in 1..Len(dispatches) : NextTick(k)

Next ==
  \/ \E c \in CallbackKinds : Setup /\ hear(c)
  \/ Setup /\ enter("ok")
  \/ Setup /\ catchAll("ok", Null)
  \/ Setup /\ listenFaulty
  \/ \E h \in HandlerKinds : Setup /\ error(h)
  \/ Deliver
  \/ Turns

Spec == Init /\ [][Next]_vars

----------------------------------------------------------------------------
(* The dispatcher with its middleware chains *)

NextChains ==
  \/ \E c \in {"ok", "finish"} :
       Setup /\ Len(listeners) < MaxChainListeners /\ hear(c)
  \/ Setup /\ Len(listeners) < MaxChainListeners /\ catchAll("ok", Null)
  \/ \E f \in MiddlewareKinds : Setup /\ listenerMiddleware(f)
  \/ \E f \in MiddlewareKinds :
       Setup /\ Len(middleware.receive) < MaxReceiveMiddleware /\ receiveMiddleware(f)
  \/ Deliver
  \/ Turns

SpecChains == Init /\ [][NextChains]_vars

----------------------------------------------------------------------------
(* The middleware chains with middleware that throw, and the error channel *)

NextFaults ==
  \/ Setup /\ Len(listeners) < MaxChainListeners /\ hear("ok")
  \/ \E f \in {"next", "throws"} : Setup /\ listenerMiddleware(f)
  \/ \E f \in {"next", "throws"} :
       Setup /\ Len(middleware.receive) < MaxReceiveMiddleware /\ receiveMiddleware(f)
  \/ \E h \in HandlerKinds : Setup /\ error(h)
  \/ Deliver
  \/ Turns

SpecFaults == Init /\ [][NextFaults]_vars

----------------------------------------------------------------------------
(* The room-event helpers: enter, leave and topic, of both robot files *)

NextHelpers ==
  \/ Setup /\ Len(listeners) < MaxHelperListeners /\ enter("ok")
  \/ Setup /\ Len(listeners) < MaxHelperListeners /\ leave("ok")
  \/ Setup /\ Len(listeners) < MaxHelperListeners /\ topic("ok")
  \/ Setup /\ Len(listeners) < MaxHelperListeners /\ leave_robot_js("ok")
  \/ Setup /\ Len(listeners) < MaxHelperListeners /\ topic_robot_js("ok")
  \/ \E v \in MessageVariants : Idle /\ receive(v)
  \/ Turns

SpecHelpers == Init /\ [][NextHelpers]_vars

----------------------------------------------------------------------------
(* The dispatcher with scripts that register at any time, also while a     *)
(* message is being dispatched                                             *)

NextLate ==
  \/ \E c \in {"ok", "finish"} : Len(listeners) < MaxLateListeners /\ hear(c)
  \/ Len(listeners) < MaxLateListeners /\ respond("ok")
  \/ Len(listeners) < MaxLateListeners /\ catchAll("ok", Null)
  \/ Deliver
  \/ Turns

SpecLate == Init /\ [][NextLate]_vars

----------------------------------------------------------------------------
(* The pattern builder, for robots of several names and aliases *)

InitPatterns == \E n \in BotNames : \E a \in BotAliases : constructor(n, a)

NextPatterns ==
  \/ \E regex \in BodyPatterns : respondPatternCall(regex)
  \/ \E n \in 1..Len(patterns) : \E text \in Texts : testCall(n, text)

SpecPatterns == InitPatterns /\ [][NextPatterns]_vars

----------------------------------------------------------------------------
(* The outbound path: the response chain and the robot's helpers *)

\* Nothing has been sent yet.
Quiet == sends = <<>> /\ outbox = <<>>

NextOutbound ==
  \/ \E f \in MiddlewareKinds : Quiet /\ responseMiddleware(f)
  \/ send
  \/ reply
  \/ messageRoom
  \/ \E m \in {"send", "reply"} : ResponseSend(m)
  \/ \E n \in 1..Len(sends) : ResponseChain(n)

SpecOutbound == Init /\ [][NextOutbound]_vars

----------------------------------------------------------------------------
(* Messages in flight at once: the adapter calls receive whenever it has   *)
(* a message, also while earlier dispatches are still under way            *)

NextConcurrent ==
  \/ Setup /\ Len(listeners) < MaxChainListeners /\ hear("ok")
  \/ Setup /\ Len(listeners) < MaxChainListeners /\ enter("ok")
  \/ Setup /\ Len(listeners) < MaxChainListeners /\ catchAll("ok", Null)
  \/ \E v \in InboundVariants : receive(v)
  \/ Turns

SpecConcurrent == Init /\ [][NextConcurrent]_vars

----------------------------------------------------------------------------
(* Middleware that break the contract by calling neither next nor done,    *)
(* with messages in flight at once.  The event loop runs every turn that   *)
(* is queued.                                                              *)

NextStall ==
  \/ Setup /\ Len(listeners) < MaxChainListeners /\ hear("ok")
  \/ Setup /\ Len(listeners) < MaxChainListeners /\ catchAll("ok", Null)
  \/ \E f \in {"next", "stalls"} : Setup /\ listenerMiddleware(f)
  \/ \E f \in {"next", "stalls"} :
       Setup /\ Len(middleware.receive) < MaxReceiveMiddleware /\ receiveMiddleware(f)
  \/ \E v \in InboundVariants : receive(v)
  \/ Turns

SpecStall == Init /\ [][NextStall]_vars /\ WF_vars(Turns)

----------------------------------------------------------------------------
(* Receive middleware that look at the message: one that finishes it, one  *)
(* that lets every message through except a CatchAllMessage                *)

ReceiveMiddlewareKinds == {"next", "finish", "doneOnCatchAll"}

NextReceive ==
  \/ Setup /\ Len(listeners) < MaxChainListeners /\ hear("ok")
  \/ Setup /\ Len(listeners) < MaxChainListeners /\ catchAll("ok", Null)
  \/ Setup /\ Len(listeners) < MaxChainListeners /\ listenFaulty
  \/ \E f \in ReceiveMiddlewareKinds : Setup /\ receiveMiddleware(f)
  \/ \E h \in HandlerKinds : Setup /\ error(h)
  \/ Deliver
  \/ Turns

SpecReceive == Init /\ [][NextReceive]_vars

----------------------------------------------------------------------------
(* The catch-all listener, registered with and without options, and        *)
(* messages of every variant                                               *)

NextCatchAll ==
  \/ Setup /\ Len(listeners) < MaxChainListeners /\ hear("ok")
  \/ \E c \in {"ok", "finish"} :
       Setup /\ Len(listeners) < MaxChainListeners /\ catchAll(c, Null)
  \/ \E o \in Options :
       Setup /\ Len(listeners) < MaxChainListeners /\ catchAll(o, "ok")
  \/ \E v \in MessageVariants : Idle /\ receive(v)
  \/ Turns

SpecCatchAll == Init /\ [][NextCatchAll]_vars

----------------------------------------------------------------------------
(* The three middleware stages together: scripts register on each of them, *)
(* messages come in and responses go out                                   *)

NextStages ==
  \/ Setup /\ Len(listeners) < MaxChainListeners /\ hear("ok")
  \/ \E f \in {"next", "done"} : Setup /\ Quiet /\ listenerMiddleware(f)
  \/ \E f \in {"next", "done"} : Setup /\ Quiet /\ responseMiddleware(f)
  \/ \E f \in {"next", "done"} :
       Setup /\ Quiet /\ Len(middleware.receive) < MaxReceiveMiddleware
         /\ receiveMiddleware(f)
  \/ Idle /\ receive("Text")
  \/ Turns
  \/ ResponseSend("send")
  \/ \E n \in 1..Len(sends) : ResponseChain(n)

SpecStages == Init /\ [][NextStages]_vars

----------------------------------------------------------------------------
(* Reading a dispatch's history *)

Dispatches == 1..Len(dispatches)

\* The positions of the log of dispatch k that hold event e of pass p.
Events(k, e, p) ==
  {n \in 1..Len(dispatches[k].log) :
     dispatches[k].log[n].e = e /\ dispatches[k].log[n].pass = p}

\* The listeners whose matcher was evaluated, whose callback was called,
\* and whose callback threw, in pass p of dispatch k.
Tried(k, p) == {dispatches[k].log[n].i : n \in Events(k, "try", p)}
Ran(k, p) == {dispatches[k].log[n].i : n \in Events(k, "run", p)}
Threw(k, p) == {dispatches[k].log[n].i : n \in Events(k, "threw", p)}

\* The final callback of the listener search of pass p has run.
Searched(k, p) == Events(k, "final", p) # {}

\* The message's done flag was already set when the search of pass p began.
DoneAtSearch(k, p) ==
  \E n \in Events(k, "search", p) : dispatches[k].log[n].j = 1

\* The message of pass p of dispatch k: the adapter's message, then the
\* CatchAllMessage that wraps it.
PassMessage(k, p) ==
  IF p = 1 THEN messages[dispatches[k].msg] ELSE messages[dispatches[k].cur]

\* Nothing is pending for dispatch k: it called back, or its turn died.
AtRest(k) == dispatches[k].pc \in {"settled", "dead"}

Settled(k) == dispatches[k].pc = "settled"

\* Listener l sets the done flag of the message it is matched against.
Finishes(l) == l.callback = "finish" /\ ~l.unwrap

\* Listener l throws when tried on message m, from its matcher or its callback.
Faults(l, m) ==
  \/ Match(l, m) = "throws"
  \/ Match(l, m) = "match" /\ l.callback = "throws"

----------------------------------------------------------------------------
(* C1: one call to receive(message, cb) invokes cb exactly once: never     *)
(* twice, and never zero times once the dispatch has nothing left to do.   *)
C1_CbExactlyOnce ==
  \A k \in Dispatches :
    /\ dispatches[k].cbCalls <= 1
    /\ AtRest(k) => dispatches[k].cbCalls = 1

(* C2: a dispatch whose first search ends with no listener executed wraps  *)
(* the message in a CatchAllMessage and re-dispatches it, exactly once;    *)
(* the CatchAll pass is never wrapped again, so a receive call creates at  *)
(* most one CatchAllMessage, and a CatchAllMessage wraps a non-CatchAll.   *)
C2_CatchAllOnce ==
  \A k \in Dispatches :
    LET d == dispatches[k]
    IN  /\ d.wraps <= 1
        /\ d.pass = d.wraps + 1
        /\ Cardinality(Events(k, "wrap", 1) \cup Events(k, "wrap", 2)) = d.wraps
        /\ Searched(k, 1) => (d.wraps = 1 <=> Ran(k, 1) \ Threw(k, 1) = {})
        /\ d.pass = 2 =>
             /\ messages[d.cur].variant = "CatchAll"
             /\ messages[d.cur].message = d.msg
             /\ messages[d.msg].variant # "CatchAll"

\* A dispatch fell back to the catch-all, no listener executed for the
\* CatchAllMessage either, and the dispatch has called back.
C2_Witness ==
  \E k \in Dispatches :
    /\ Settled(k)
    /\ dispatches[k].wraps = 1
    /\ Searched(k, 2)
    /\ Tried(k, 2) # {}
    /\ Ran(k, 2) = {}

C3_WitnessBoth ==
  \E k \in Dispatches :
    /\ Len(listeners) = 3
    /\ Match(listeners[1], PassMessage(k, 1)) = "match"
    /\ listeners[1].callback = "ok"
    /\ Match(listeners[2], PassMessage(k, 1)) = "nomatch"
    /\ Match(listeners[3], PassMessage(k, 1)) = "match"
    /\ Settled(k)
    /\ Ran(k, 1) = {1, 3}

(* C4: given [A(throws), B(matches)], once the dispatch has nothing left   *)
(* to do B's callback has been called, and A's error has been reported to  *)
(* every registered error handler.                                         *)
C4_FaultyListenerIsolated ==
  \A k \in Dispatches :
    ( /\ Len(listeners) = 2
      /\ Faults(listeners[1], PassMessage(k, 1))
      /\ Match(listeners[2], PassMessage(k, 1)) = "match"
      /\ ~dispatches[k].doneAtReceive
      /\ AtRest(k) )
    => /\ 2 \in Ran(k, 1)
       /\ \E n \in 1..Len(reports) :
            /\ reports[n].err.dispatch = k
            /\ reports[n].err.kind \in {"matcher", "callback"}
            /\ reports[n].err.idx = 1
            /\ reports[n].invoked = reports[n].registered

(* C5: an error handler that throws is contained: every registered handler *)
(* is still invoked for the error, and nothing leaves invokeErrorHandlers. *)
C5_HandlerFaultContained ==
  \A n \in 1..Len(reports) :
    /\ reports[n].invoked = reports[n].registered
    /\ ~reports[n].escaped

\* What a dispatch did: the listeners called in each pass, and whether it
\* fell back to the catch-all.
Outcome(k) ==
  [first |-> Ran(k, 1), second |-> Ran(k, 2), fallback |-> dispatches[k].wraps]

(* C6, as stated: two dispatches of the same message object have the same  *)
(* outcome.                                                                 *)
C6_SameOutcomeTwice ==
  \A j \in Dispatches : \A k \in Dispatches :
    (j < k /\ dispatches[j].msg = dispatches[k].msg /\ Settled(j) /\ Settled(k))
    => Outcome(j) = Outcome(k)

(* C6, amended: two dispatches of the same message object have the same    *)
(* outcome provided the message's done flag is still false when the second *)
(* dispatch begins.                                                        *)
C6_SameOutcomeWhileOpen ==
  \A j \in Dispatches : \A k \in Dispatches :
    ( /\ j < k
      /\ dispatches[j].msg = dispatches[k].msg
      /\ Settled(j) /\ Settled(k)
      /\ ~dispatches[k].doneAtReceive )
    => Outcome(j) = Outcome(k)

\* The same message was dispatched twice, its done flag stayed false, and
\* a listener was called in both dispatches.
C6_Witness ==
  \E j \in Dispatches : \E k \in Dispatches :
    /\ j < k
    /\ dispatches[j].msg = dispatches[k].msg
    /\ Settled(j) /\ Settled(k)
    /\ ~dispatches[k].doneAtReceive
    /\ Ran(j, 1) # {}
    /\ Ran(k, 1) # {}

(* C7: when a receive middleware calls done(), cb is invoked, and in that  *)
(* pass no listener's matcher or callback runs, no listener search starts  *)
(* and no CatchAllMessage is made.                                         *)
C7_ReceiveAbortSkipsListeners ==
  \A k \in Dispatches :
    LET d == dispatches[k]
    IN  \A n \in 1..Len(d.log) :
          (d.log[n].e = "rmw" /\ registered.receive[d.log[n].j] = "done")
          => /\ d.pc = "settled"
             /\ d.cbCalls = 1
             /\ Len(d.log) = n + 1
             /\ d.log[n + 1].e = "cb"
             /\ d.pass = d.log[n].pass
             /\ \A e \in {"search", "try", "lmw", "run", "wrap"} :
                  Events(k, e, d.pass) = {}

\* A receive middleware aborted a message that the first listener would
\* have matched.
C7_Witness ==
  \E k \in Dispatches :
    /\ \E n \in Events(k, "rmw", 1) :
         registered.receive[dispatches[k].log[n].j] = "done"
    /\ Len(listeners) > 0
    /\ Match(listeners[1], PassMessage(k, 1)) = "match"
    /\ Settled(k)

(* C8: the listener chain runs the middleware in the order they were given *)
(* to listenerMiddleware, for every matched listener of every pass: a      *)
(* middleware runs only right after the one registered before it has       *)
(* called next (the first right after the listener matched), and the       *)
(* listener's callback runs only right after the last one has called next. *)
C8_ListenerChainOrder ==
  \A k \in Dispatches :
    LET log == dispatches[k].log
        H   == registered.listener
        step(n, i, p, j) ==
          /\ n >= 1
          /\ log[n] = [e |-> "lmw", pass |-> p, i |-> i, j |-> j]
          /\ j <= Len(H)
          /\ H[j] = "next"
        matched(n, i, p) ==
          /\ n >= 1
          /\ log[n] = [e |-> "try", pass |-> p, i |-> i, j |-> 0]
    IN  \A n \in 1..Len(log) :
          /\ log[n].e = "lmw" =>
               /\ log[n].j \in 1..Len(H)
               /\ IF log[n].j = 1
                  THEN matched(n - 1, log[n].i, log[n].pass)
                  ELSE step(n - 1, log[n].i, log[n].pass, log[n].j - 1)
          /\ log[n].e = "run" =>
               IF H = <<>>
               THEN matched(n - 1, log[n].i, log[n].pass)
               ELSE step(n - 1, log[n].i, log[n].pass, Len(H))

\* With [m1, m2] registered, two listener callbacks have run in one dispatch.
C8_Witness ==
  \E k \in Dispatches :
    /\ Len(registered.listener) = 2
    /\ Cardinality(Events(k, "run", 1) \cup Events(k, "run", 2)) >= 2
    /\ Settled(k)

HelperVariant(f) ==
  CASE f = "enter" -> "Enter"
    [] f \in {"leave", "leave_robot_js"} -> "Leave"
    [] f \in {"topic", "topic_robot_js"} -> "Topic"

(* C11: a listener registered by enter, leave or topic matches a message   *)
(* exactly when the message is of the helper's variant: once the search of *)
(* the adapter's message has ended, its callback has been called if and    *)
(* only if the message is an Enter, a Leave or a Topic message resp.       *)
C11_HelpersMatchOwnVariant ==
  \A k \in Dispatches : \A i \in 1..Len(listeners) :
    LET m == PassMessage(k, 1)
        v == HelperVariant(listeners[i].matcher)
    IN  /\ Match(listeners[i], m) = Truth(m.variant = v)
        /\ Searched(k, 1) => (i \in Ran(k, 1) <=> m.variant = v)

\* The n-th pattern was built by a robot named "Webby" from a regex with
\* source foo and the given flags, and has been tried on a text.
TriedFoo(n, flags) ==
  /\ name = Webby
  /\ patterns[n].regex = [source |-> Foo, flags |-> flags]
  /\ patterns[n].matched # "untested"

(* C12: for the name "Webby", no alias and /foo/i, the pattern that        *)
(* respondPattern returns matches "Webby: foo", "@Webby foo" and           *)
(* "webby, foo" and does not match "foofoo webby".                         *)
C12_AddressedPatternMatches ==
  \A n \in 1..Len(patterns) :
    (TriedFoo(n, <<"i">>) /\ alias = <<>>) =>
      /\ patterns[n].text \in
           {Webby \o <<":", " ">> \o Foo, <<"@">> \o Webby \o <<" ">> \o Foo,
            <<"w", "e", "b", "b", "y", ",", " ">> \o Foo}
           => patterns[n].matched = "yes"
      /\ patterns[n].text = Foo \o Foo \o <<" ", "w", "e", "b", "b", "y">>
           => patterns[n].matched = "no"

\* The pattern built from /foo/i has been tried on "webby, foo".
C12_Witness ==
  \E n \in 1..Len(patterns) :
    /\ TriedFoo(n, <<"i">>) /\ alias = <<>>
    /\ patterns[n].text = <<"w", "e", "b", "b", "y", ",", " ">> \o Foo
    /\ patterns[n].matched = "yes"

(* C13: for the name "Webby", the alias "Bot" and /foo/, the pattern that  *)
(* respondPattern returns matches both "Webby: foo" and "Bot: foo".        *)
C13_NameAndAliasMatch ==
  \A n \in 1..Len(patterns) :
    (TriedFoo(n, <<>>) /\ alias = Bot) =>
      (patterns[n].text \in {Webby \o <<":", " ">> \o Foo,
                             Bot \o <<":", " ">> \o Foo}
         => patterns[n].matched = "yes")

\* The pattern built for "Webby" with alias "Bot" has been tried on
\* "Bot: foo".
C13_Witness ==
  \E n \in 1..Len(patterns) :
    /\ TriedFoo(n, <<>>) /\ alias = Bot
    /\ patterns[n].text = Bot \o <<":", " ">> \o Foo
    /\ patterns[n].matched = "yes"

(* C14: when no registered error handler throws, invokeErrorHandlers       *)
(* calls every handler registered through error(callback) exactly once,    *)
(* in registration order, each with the (err, res) it was given itself.    *)
C14_EveryHandlerInOrder ==
  \A n \in 1..Len(reports) :
    (\A i \in 1..Len(errorHandlers) : errorHandlers[i] # "throws") =>
      reports[n].calls =
        [i \in 1..Len(errorHandlers) |->
           [handler |-> i, err |-> reports[n].err, res |-> reports[n].res]]

\* An error of a dispatch, with its response, was reported to two handlers
\* that do not throw.
C14_Witness ==
  \E n \in 1..Len(reports) :
    /\ Len(errorHandlers) = 2
    /\ \A i \in 1..2 : errorHandlers[i] = "ok"
    /\ reports[n].res # NoResponse
    /\ Len(reports[n].calls) = 2

\* One listener has been added at the end of the registry.
Appended ==
  /\ Len(listeners') = Len(listeners) + 1
  /\ SubSeq(listeners', 1, Len(listeners)) = listeners

\* The step is a call of listen, hear or respond.
Registration ==
  \/ \E c \in CallbackKinds : hear(c) \/ respond(c)
  \/ \E m \in {"enter", "leave", "topic", "catchAll", "throws"} :
       \E c \in CallbackKinds : \E u \in BOOLEAN : listen(m, EmptyOptions, c, u)

(* C15: listen, hear and respond each add exactly one listener at the end  *)
(* of the registry and leave the earlier entries as they were; every other *)
(* step, the turns of a dispatch included, leaves the registry unchanged.  *)
C15_RegistryAppendOnly ==
  [][IF Registration THEN Appended ELSE listeners' = listeners]_vars

\* Listeners registered by hear, by respond and by listen fill the
\* registry, the last of them added while a dispatch was searching.
C15_Witness ==
  /\ Len(listeners) = 3
  /\ \E i \in 1..3 : listeners[i].matcher = "hear"
  /\ \E i \in 1..3 : listeners[i].matcher = "respond"
  /\ \E i \in 1..3 : listeners[i].matcher = "catchAll"
  /\ \E k \in Dispatches :
       \E n \in Events(k, "search", 1) : dispatches[k].log[n].i < 3

\* The listeners whose listener chain was aborted by a middleware calling
\* done(), in pass p of dispatch k.
Aborted(k, p) ==
  {dispatches[k].log[n].i : n \in
     {n \in Events(k, "lmw", p) :
        registered.listener[dispatches[k].log[n].j] = "done"}}

(* C16: a matching listener whose listener chain is aborted does not count *)
(* as executed: when the search of the adapter's message has ended, some   *)
(* listener was aborted and no listener's callback was called, the message *)
(* is wrapped in a CatchAllMessage and dispatched again.                   *)
C16_AbortedIsNotExecuted ==
  \A k \in Dispatches :
    (Searched(k, 1) /\ Aborted(k, 1) # {} /\ Ran(k, 1) = {})
    => /\ dispatches[k].wraps = 1
       /\ \E n \in Events(k, "final", 1) :
            /\ n < Len(dispatches[k].log)
            /\ dispatches[k].log[n + 1].e = "wrap"

\* Two listeners matched the adapter's message, the listener chain aborted
\* both, and the dispatch went on to the catch-all pass and called back.
C16_Witness ==
  \E k \in Dispatches :
    /\ Aborted(k, 1) = {1, 2}
    /\ Ran(k, 1) = {}
    /\ dispatches[k].wraps = 1
    /\ Settled(k)

(* C17: when the only listener that matches the adapter's message throws   *)
(* from its callback, the dispatch ends with the message wrapped in a      *)
(* CatchAllMessage and dispatched again, and with cb called once.          *)
C17_ThrowingListenerFallsBack ==
  \A k \in Dispatches :
    LET m == PassMessage(k, 1)
    IN  ( /\ AtRest(k)
          /\ \E i \in 1..Len(listeners) :
               /\ Match(listeners[i], m) = "match"
               /\ listeners[i].callback = "throws"
               /\ \A j \in 1..Len(listeners) :
                    j # i => Match(listeners[j], m) = "nomatch" )
        => /\ dispatches[k].wraps = 1
           /\ dispatches[k].cbCalls = 1

(* C18: a middleware that throws aborts its own chain and nothing else:    *)
(* the error is reported to every error handler, the dispatch goes on      *)
(* (its turn is not cut short), a receive chain's done continuation, cb,   *)
(* runs next, and a listener chain hands the search its answer without     *)
(* the listener's callback or a later middleware having run.               *)
C18_MiddlewareFaultAbortsChain ==
  \A k \in Dispatches :
    LET d == dispatches[k]
    IN  \A n \in 1..Len(d.log) :
          LET ev == d.log[n]
              follows(e) == n < Len(d.log) /\ d.log[n + 1].e = e
          IN  /\ (ev.e = "rmw" /\ registered.receive[ev.j] = "throws") =>
                   /\ d.pc # "dead"
                   /\ follows("cb")
                   /\ \E x \in 1..Len(reports) :
                        /\ reports[x].err = Error("middleware", k, ev.j)
                        /\ reports[x].invoked = reports[x].registered
              /\ (ev.e = "lmw" /\ registered.listener[ev.j] = "throws") =>
                   /\ d.pc # "dead"
                   /\ ~follows("lmw") \/ d.log[n + 1].i # ev.i
                                       \/ d.log[n + 1].pass # ev.pass
                   /\ ~follows("run")
                   /\ \E x \in 1..Len(reports) :
                        /\ reports[x].err = Error("middleware", k, ev.j)
                        /\ reports[x].invoked = reports[x].registered

(* C19: the listeners of a pass are attempted one at a time, with a        *)
(* scheduling tick between two attempts: the matcher of listener i+1 is    *)
(* evaluated in the turn of the ticker that follows listener i's answer,   *)
(* and the middleware and callback of a listener run after its own matcher *)
(* and before that ticker.                                                 *)
C19_TickBetweenListeners ==
  \A k \in Dispatches :
    LET log == dispatches[k].log
    IN  \A n \in 1..Len(log) :
          /\ (log[n].e = "try" /\ log[n].i > 1) =>
               /\ log[n - 1].e = "tick"
               /\ log[n - 1].i = log[n].i - 1
               /\ log[n - 1].pass = log[n].pass
          /\ log[n].e \in {"lmw", "run", "threw", "tick"} =>
               /\ log[n - 1].e \in {"try", "lmw", "run", "threw"}
               /\ log[n - 1].i = log[n].i
               /\ log[n - 1].pass = log[n].pass

C21_ConcurrentDispatchesIndependent ==
  \A k \in Dispatches :
    LET d == dispatches[k]
        matching == {i \in 1..Len(listeners) :
                       Match(listeners[i], PassMessage(k, 1)) = "match"}
    IN  /\ d.anyListenersExecuted <=> Ran(k, d.pass) # {}
        /\ Searched(k, 1) => (d.wraps = 1 <=> matching = {})
        /\ Searched(k, 1) => Ran(k, 1) = matching

\* The second receive call came while the first dispatch had not called
\* back; a listener executed for one of the two messages, the other fell
\* back to the catch-all, and both have called back.
C21_Witness ==
  \E k1 \in Dispatches : \E k2 \in Dispatches :
    /\ k1 \in dispatches[k2].inFlight
    /\ Settled(k1) /\ Settled(k2)
    /\ \/ Ran(k1, 1) # {} /\ dispatches[k2].wraps = 1 /\ Ran(k2, 2) # {}
       \/ Ran(k2, 1) # {} /\ dispatches[k1].wraps = 1 /\ Ran(k1, 2) # {}


\* Dispatch k has run a middleware that calls neither next nor done.
RanStalling(k) ==
  \E n \in 1..Len(dispatches[k].log) :
    LET ev == dispatches[k].log[n]
    IN  \/ ev.e = "rmw" /\ middleware.receive[ev.j] = "stalls"
        \/ ev.e = "lmw" /\ middleware.listener[ev.j] = "stalls"

Stalled(k) == dispatches[k].pc = "stalled"

(* C22: a dispatch that ran a middleware which calls neither next nor done *)
(* is stalled for good: its cb has not been called, running the middleware *)
(* is the last thing it did, and its record never changes again; a         *)
(* dispatch is stalled only by such a middleware, and every dispatch that  *)
(* is not stalled calls its cb in the end, whatever else is stalled.       *)
C22_StallIsPermanentAndLocal ==
  /\ [](\A k \in Dispatches :
          /\ Stalled(k) <=> RanStalling(k)
          /\ Stalled(k) =>
                /\ dispatches[k].cbCalls = 0
                /\ dispatches[k].log[Len(dispatches[k].log)].e \in {"rmw", "lmw"})
  /\ [][\A k \in Dispatches : Stalled(k) => dispatches'[k] = dispatches[k]]_vars
  /\ \A k \in 1..MaxDispatches :
       (k \in Dispatches) ~> (k \in Dispatches /\ (Settled(k) \/ Stalled(k)))

\* One dispatch is stalled in a listener middleware after its listener
\* matched; another message, delivered while that one was in flight and
\* matched by no listener, has called back.
C22_Witness ==
  \E k1 \in Dispatches : \E k2 \in Dispatches :
    /\ Stalled(k1)
    /\ Tried(k1, 1) # {}
    /\ k1 \in dispatches[k2].inFlight
    /\ Settled(k2)
    /\ ~RanStalling(k2)
    /\ dispatches[k2].cbCalls = 1


(* C23: no step of the robot resets a done flag: a message whose done flag *)
(* is true keeps it true, through listener attempts, the catch-all         *)
(* re-dispatch and further dispatches of the same message object.          *)
C23_DoneNeverReset ==
  [][\A id \in 1..Len(messages) : messages[id].done => messages'[id].done]_vars

\* A message whose done flag was already true was handed to receive again;
\* that dispatch attempted a listener, fell back to the catch-all and has
\* called back, and the flag is still true.
C23_Witness ==
  \E k \in Dispatches :
    /\ dispatches[k].doneAtReceive
    /\ Settled(k)
    /\ Tried(k, 1) # {}
    /\ dispatches[k].wraps = 1
    /\ messages[dispatches[k].msg].done


\* The receive middleware run in pass p of dispatch k, in the order they ran.
ReceiveRun(k, p) ==
  LET steps == SelectSeq(dispatches[k].log,
                         LAMBDA ev : ev.e = "rmw" /\ ev.pass = p)
  IN  [n \in 1..Len(steps) |-> steps[n].j]

\* Receive middleware j calls done when it is given message m.
Aborts(j, m) ==
  \/ middleware.receive[j] = "done"
  \/ middleware.receive[j] = "doneOnCatchAll" /\ m.variant = "CatchAll"

\* The search of pass p of dispatch k has begun.
SearchBegun(k, p) == Events(k, "search", p) # {}

(* C24: the catch-all re-dispatch starts again from the receive stage: the *)
(* second pass of a dispatch is on the CatchAllMessage that wraps the      *)
(* dispatch's message, the receive middleware run on it from the first one *)
(* on, all of them before the second search begins, and when one of them   *)
(* calls done in that second run no listener is searched for the           *)
(* CatchAllMessage and the next thing the dispatch does is call cb.        *)
C24_RedispatchFromReceiveStage ==
  \A k \in Dispatches :
    LET d == dispatches[k]
        run == ReceiveRun(k, 2)
        aborted == \E n \in 1..Len(run) : Aborts(run[n], PassMessage(k, 2))
    IN  d.wraps = 1 =>
          /\ PassMessage(k, 2).variant = "CatchAll"
          /\ PassMessage(k, 2).message = d.msg
          /\ \A n \in 1..Len(run) : run[n] = n
          /\ SearchBegun(k, 2) => Len(run) = Len(middleware.receive)
          /\ aborted =>
                /\ ~SearchBegun(k, 2)
                /\ Tried(k, 2) = {}
                /\ Settled(k)
                /\ d.cbCalls = 1
                /\ d.log[Len(d.log)].e = "cb"
                /\ d.log[Len(d.log) - 1].e = "rmw"

\* With a catch-all listener registered, a message no listener executed
\* for passed two receive middleware, was wrapped, and the second of the
\* two called done on the CatchAllMessage: the dispatch has called back.
C24_Witness ==
  \E k \in Dispatches :
    /\ dispatches[k].wraps = 1
    /\ ReceiveRun(k, 1) = <<1, 2>>
    /\ ReceiveRun(k, 2) = <<1, 2>>
    /\ Aborts(2, PassMessage(k, 2))
    /\ \E i \in 1..Len(listeners) : listeners[i].matcher = "catchAll"
    /\ Settled(k)


\* The number of listeners the search of pass p of dispatch k goes through.
SearchLength(k, p) ==
  IF SearchBegun(k, p)
  THEN dispatches[k].log[CHOOSE n \in Events(k, "search", p) : TRUE].i
  ELSE 0

(* C25: the done flag is consulted only after a listener attempt: when a   *)
(* message's done flag is already true as a listener search begins, the    *)
(* search attempts the first registered listener, and no other listener.   *)
C25_DoneStopsAfterFirstAttempt ==
  \A k \in Dispatches : \A p \in 1..dispatches[k].pass :
    (DoneAtSearch(k, p) /\ SearchLength(k, p) > 0) => Tried(k, p) = {1}


\* The listeners catchAll registered.
CatchAllListeners == {i \in 1..Len(listeners) : listeners[i].matcher = "catchAll"}

(* C26: the matcher of a listener registered by catchAll accepts a         *)
(* CatchAllMessage and no message of another variant; whenever such a      *)
(* listener's callback runs, it is in the catch-all pass and the response  *)
(* it is given holds the message the CatchAllMessage wraps, which is the   *)
(* message the adapter delivered; and a call of catchAll with one argument *)
(* registers that argument as the callback, with empty options.            *)
C26_CatchAllListener ==
  /\ [](\A i \in CatchAllListeners :
          /\ Match(listeners[i], CatchAllMessage(1)) = "match"
          /\ \A v \in MessageVariants :
               Match(listeners[i], Message(v)) = "nomatch"
          /\ listeners[i].callback \in CallbackKinds
          /\ listeners[i].options \in Options)
  /\ [](\A k \in Dispatches : \A n \in 1..Len(dispatches[k].log) :
          LET ev == dispatches[k].log[n]
          IN  (ev.e = "run" /\ ev.i \in CatchAllListeners) =>
                /\ ev.pass = 2
                /\ ev.j = messages[dispatches[k].cur].message
                /\ ev.j = dispatches[k].msg
                /\ messages[ev.j].variant # "CatchAll")
  /\ [][\A c \in CallbackKinds :
          catchAll(c, Null) =>
            /\ Len(listeners') = Len(listeners) + 1
            /\ listeners'[Len(listeners')].callback = c
            /\ listeners'[Len(listeners')].options = EmptyOptions]_vars

\* A catch-all listener registered with one argument, a callback that
\* finishes the message it is given, has run in the second pass of a
\* dispatch: the message the adapter delivered is done, and the
\* CatchAllMessage around it is not.
C26_Witness ==
  \E k \in Dispatches : \E i \in CatchAllListeners :
    /\ listeners[i].callback = "finish"
    /\ listeners[i].options = EmptyOptions
    /\ i \in Ran(k, 2)
    /\ Settled(k)
    /\ messages[dispatches[k].msg].done
    /\ ~messages[dispatches[k].cur].done


Stages == {"listener", "response", "receive"}

\* Every function on the stack of stage st calls next.
AllNext(st) == \A j \in 1..Len(registered[st]) : registered[st][j] = "next"

(* C27: the three middleware stacks are independent.  A registration call  *)
(* appends its function to the stack of its own stage and leaves the other *)
(* two stacks as they were, so each stack holds exactly the functions      *)
(* registered on its stage, in order; and each chain runs the functions of *)
(* its own stage only: a function that calls done aborts the receive       *)
(* chain, a listener chain or a response chain only when it was registered *)
(* on that stage.                                                          *)
C27_StagesIndependent ==
  /\ [](middleware = registered)
  /\ [][\A st \in Stages :
          /\ registered'[st] # registered[st] => middleware'[st] # middleware[st]
          /\ middleware'[st] # middleware[st] =>
                /\ \E f \in MiddlewareKinds :
                     /\ middleware'[st] = Append(middleware[st], f)
                     /\ registered'[st] = Append(registered[st], f)
                /\ \A o \in Stages \ {st} :
                     /\ middleware'[o] = middleware[o]
                     /\ registered'[o] = registered[o]]_vars
  /\ [](\A k \in Dispatches :
          /\ \A n \in 1..Len(dispatches[k].log) :
               LET ev == dispatches[k].log[n]
               IN  /\ ev.e = "rmw" => ev.j \in 1..Len(registered.receive)
                   /\ ev.e = "lmw" => ev.j \in 1..Len(registered.listener)
          /\ SearchBegun(k, 1) => AllNext("receive")
          /\ (Settled(k) /\ ~SearchBegun(k, 1)) => ~AllNext("receive")
          /\ Ran(k, 1) # {} => AllNext("listener")
          /\ (Searched(k, 1) /\ Ran(k, 1) = {} /\ Tried(k, 1) # {})
               => ~AllNext("listener"))
  /\ [](\A n \in 1..Len(sends) :
          /\ sends[n].mwi \in 1..(Len(registered.response) + 1)
          /\ sends[n].pc = "sent" => AllNext("response")
          /\ sends[n].pc = "dropped" => ~AllNext("response"))

\* With functions on all three stacks, a listener middleware that calls
\* done kept the matching listener from running, while the message passed
\* the receive chain and a response passed the response chain.
C27_Witness ==
  /\ \A st \in Stages : Len(middleware[st]) > 0
  /\ ~AllNext("listener")
  /\ \E k \in Dispatches :
       /\ Settled(k)
       /\ Events(k, "rmw", 1) # {}
       /\ Events(k, "lmw", 1) # {}
       /\ Tried(k, 1) # {}
       /\ Ran(k, 1) = {}
  /\ \E n \in 1..Len(sends) : sends[n].pc = "sent"


\* Sequence s begins with sequence p.
StartsWith(s, p) == Len(s) >= Len(p) /\ SubSeq(s, 1, Len(p)) = p

\* The pattern's source places x, escaped, first in the alternation.
PlacesFirst(regex, x) ==
  StartsWith(regex.source,
             <<"^", "\\", "s", "*", "[", "@", "]", "?", "(", "?", ":">>
             \o escape(x) \o <<"[", ":", ",", "]", "?", "|">>)

(* C28 as claimed: with a name and an alias set, the alternation of the    *)
(* pattern respondPattern returns begins with whichever of the two is the  *)
(* longer text, whatever characters they contain.                          *)
C28_TextuallyLongerFirst ==
  \A n \in 1..Len(patterns) :
    alias # <<>> =>
      /\ Len(name) > Len(alias) => PlacesFirst(patterns[n].returned, name)
      /\ Len(alias) > Len(name) => PlacesFirst(patterns[n].returned, alias)

(* C28, amended: the alternation begins with whichever of the two is       *)
(* longer once escaped, the alias when the escaped lengths are equal; this *)
(* is the longer text whenever one of the two begins with the other.       *)
C28_EscapedLongerFirst ==
  \A n \in 1..Len(patterns) :
    alias # <<>> =>
      /\ PlacesFirst(patterns[n].returned,
                     IF Len(escape(name)) > Len(escape(alias))
                     THEN name ELSE alias)
      /\ (StartsWith(name, alias) /\ name # alias)
           => PlacesFirst(patterns[n].returned, name)
      /\ StartsWith(alias, name) => PlacesFirst(patterns[n].returned, alias)

\* A pattern was built for the name "Webby" and the alias "W.B.": the
\* alias is the shorter text and the longer one once escaped, and it comes
\* first; the pattern matches a message addressed to "Webby".
C28_Witness ==
  \E n \in 1..Len(patterns) :
    /\ name = Webby /\ alias = Initials
    /\ Len(escape(alias)) > Len(name)
    /\ PlacesFirst(patterns[n].returned, alias)
    /\ patterns[n].text = Webby \o <<":", " ">> \o Foo
    /\ patterns[n].regex.source = Foo
    /\ patterns[n].matched = "yes"


\* Sequence s ends with sequence p.
EndsWith(s, p) ==
  Len(s) >= Len(p) /\ SubSeq(s, Len(s) - Len(p) + 1, Len(s)) = p

\* Pattern n was built from a body that begins with a start-anchor:
\* respondPattern logged its warning (two lines) and returned a RegExp with
\* the body, anchor included, at its end and the flags of the body.
AnchoredBodyKept(n) ==
  /\ patterns[n].warnings = 2
  /\ patterns[n].returned.flags = patterns[n].regex.flags
  /\ EndsWith(patterns[n].returned.source,
              <<"(", "?", ":">> \o patterns[n].regex.source \o <<")">>)

\* The text begins with the robot's name, or with '@' and the name.
AddressedByName(text) ==
  StartsWith(text, name) \/ StartsWith(text, <<"@">> \o name)

(* C29 as claimed: for a body that begins with '^', respondPattern warns,  *)
(* throws nothing and returns a pattern; without the multiline flag that   *)
(* pattern matches no message addressed to the robot by name.              *)
C29_AnchoredBodyNeverMatches ==
  \A n \in 1..Len(patterns) :
    patterns[n].regex.source[1] = "^" =>
      /\ AnchoredBodyKept(n)
      /\ (patterns[n].matched # "untested"
            /\ AddressedByName(patterns[n].text)
            /\ "m" \notin Range(patterns[n].regex.flags))
           => patterns[n].matched = "no"

(* C29, amended: for a body that begins with '^', respondPattern warns,    *)
(* throws nothing and returns a pattern; without the multiline flag, and   *)
(* when the body has no alternative beside the anchored one, that pattern  *)
(* matches no message.                                                     *)
C29_AnchoredBodyWithoutAlternativeNeverMatches ==
  \A n \in 1..Len(patterns) :
    patterns[n].regex.source[1] = "^" =>
      /\ AnchoredBodyKept(n)
      /\ (patterns[n].matched # "untested"
            /\ "m" \notin Range(patterns[n].regex.flags)
            /\ "|" \notin Range(patterns[n].regex.source))
           => patterns[n].matched = "no"

\* The pattern built from /^foo/ for "Webby" was tried on "Webby: foo" and
\* did not match.
C29_Witness ==
  \E n \in 1..Len(patterns) :
    /\ name = Webby
    /\ patterns[n].regex = [source |-> <<"^">> \o Foo, flags |-> <<>>]
    /\ patterns[n].warnings = 2
    /\ patterns[n].text = Webby \o <<":", " ">> \o Foo
    /\ patterns[n].matched = "no"

====
